---- MODULE Spec2Model ----
(***************************************************************************)
(* The /query/* request pipeline of src/src/index.ts: the bearerAuth       *)
(* middleware, the route's zValidator("json", schema) and the three        *)
(* handlers (/all/, /exec/, /batch/) talking to the bound D1 database.     *)
(*                                                                         *)
(* A string is kept as run lengths: `lead` whitespace characters, then a   *)
(* `core` that starts and ends with a non-whitespace character, then       *)
(* `trail` whitespace characters.  A string of whitespace only has core 0  *)
(* and all of its characters counted in `lead`.  Its length is the sum and *)
(* String.prototype.trim keeps the core only.                              *)
(***************************************************************************)
EXTENDS Integers, Sequences, FiniteSets, TLC

VARIABLES pc, req, path, valid, calls, resp

vars == <<pc, req, path, valid, calls, resp>>

---------------------------------------------------------------------------
\* Bounds of the model.
MaxPad == 1
MaxParams == 2
MaxBatch == 2

\* Limits of the schemas.
MinLen == 1
MaxAllLen == 10000
MaxExecLen == 1000000

sharedSecret == "0123456789abcdef-secret"

---------------------------------------------------------------------------
\* Strings.
Str(l, c, t) == [type |-> "string", lead |-> l, core |-> c, trail |-> t]

StrLen(s) == s.lead + s.core + s.trail

Trim(s) == [type |-> "string", lead |-> 0, core |-> s.core, trail |-> 0]

NotAString(t) == [type |-> t, lead |-> 0, core |-> 0, trail |-> 0]

CoreLens ==
  {1, 2, MaxAllLen - 1, MaxAllLen, MaxAllLen + 1,
   MaxExecLen - 1, MaxExecLen, MaxExecLen + 1}

Strings ==
  {Str(l, c, t) : l \in 0..MaxPad, c \in CoreLens, t \in 0..MaxPad}
    \cup {Str(l, 0, 0) : l \in 0..MaxPad}

\* The values a body can carry in its queryText field: absent, a number, a
\* string.
QueryTexts == {NotAString("undefined"), NotAString("number")} \cup Strings

\* JSON values of a params array, by their JSON type.
Scalars == {"string", "number", "boolean", "null"}
JsonTypes == Scalars \cup {"object", "array"}

SeqsUpTo(S, n) == UNION {[1..k -> S] : k \in 0..n}

\* The params field: absent, not an array (the "params": "3819848" of the
\* README), or an array of JSON values.
ParamsFields ==
  {[type |-> "undefined", items |-> <<>>], [type |-> "string", items |-> <<>>]}
    \cup {[type |-> "array", items |-> p] : p \in SeqsUpTo(JsonTypes, MaxParams)}

FewParams ==
  {[type |-> "undefined", items |-> <<>>], [type |-> "array", items |-> <<"number">>]}

SelectOne == Str(0, 8, 0)

Entry(q, p) == [queryText |-> q, params |-> p]

\* Bodies sent to /all/ and /exec/.
QueryBodies ==
  {Entry(q, p) : q \in QueryTexts, p \in FewParams}
    \cup {Entry(SelectOne, p) : p \in ParamsFields}

\* Entries of a batch, pairwise different in their trimmed text.
BatchEntries ==
  { Entry(Str(0, 1, 0), [type |-> "undefined", items |-> <<>>]),
    Entry(Str(1, MaxAllLen - 1, 0), [type |-> "array", items |-> <<"number">>]),
    Entry(Str(1, 0, 0), [type |-> "undefined", items |-> <<>>]),
    Entry(Str(0, 2, 0), [type |-> "array", items |-> <<"object">>]),
    Entry(Str(0, MaxAllLen + 1, 0), [type |-> "undefined", items |-> <<>>]),
    Entry(NotAString("undefined"), [type |-> "undefined", items |-> <<>>]) }

NoBatch == [type |-> "undefined", items |-> <<>>]

BatchFields ==
  {NoBatch} \cup {[type |-> "array", items |-> b] : b \in SeqsUpTo(BatchEntries, MaxBatch)}

NoEntry == Entry(NotAString("undefined"), [type |-> "undefined", items |-> <<>>])

Body(e, b) == [queryText |-> e.queryText, params |-> e.params, batch |-> b]

\* The Authorization header.
NoHeader == [present |-> FALSE, scheme |-> "", token |-> ""]

Headers ==
  {NoHeader} \cup {[present |-> TRUE, scheme |-> s, token |-> t] :
                     s \in {"Bearer", "Basic"}, t \in {sharedSecret, "wrong-token"}}

Requests ==
  {[route |-> r, header |-> h, body |-> Body(e, NoBatch)] :
      r \in {"all", "exec"}, h \in Headers, e \in QueryBodies}
    \cup {[route |-> "batch", header |-> h, body |-> Body(NoEntry, b)] :
            h \in Headers, b \in BatchFields}

---------------------------------------------------------------------------
\* hono/bearer-auth: no header is 401; a header that does not match
\* "Bearer <token>" is 400 (invalid_request); a token that differs from the
\* configured one is 401 (invalid_token); otherwise the next handler runs.
bearerAuth(header, token) ==
  IF ~header.present THEN 401
  ELSE IF header.scheme # "Bearer" THEN 400
  ELSE IF header.token # token THEN 401
  ELSE 0

---------------------------------------------------------------------------
\* zod: a ZodString runs its checks in the order they were chained, each on
\* the data as the checks before it left it; an issue does not stop the run.
TooBigMut(len, max) == len >= max

TooBig(len, max) == len > max

TooSmall(len, min) == len < min

ApplyCheck(st, chk) ==
  IF chk.kind = "min" THEN [st EXCEPT !.ok = st.ok /\ ~TooSmall(StrLen(st.data), chk.value)]
  ELSE IF chk.kind = "max" THEN [st EXCEPT !.ok = st.ok /\ ~TooBig(StrLen(st.data), chk.value)]
  ELSE [st EXCEPT !.data = Trim(st.data)]

RECURSIVE RunChecks(_, _)
RunChecks(st, checks) ==
  IF checks = <<>> THEN st
  ELSE RunChecks(ApplyCheck(st, Head(checks)), Tail(checks))

\* z.string().min(1).max(max).trim()
QueryTextChecks(max) ==
  << [kind |-> "min", value |-> MinLen],
     [kind |-> "max", value |-> max],
     [kind |-> "trim", value |-> 0] >>

ParseQueryText(q, max) ==
  IF q.type # "string" THEN [ok |-> FALSE, data |-> q]
  ELSE RunChecks([ok |-> TRUE, data |-> q], QueryTextChecks(max))

\* z.any().array().optional()
ParseParams(p) ==
  [ok |-> p.type \in {"undefined", "array"},
   hasParams |-> p.type = "array",
   params |-> p.items]

NoQuery == [queryText |-> Str(0, 0, 0), hasParams |-> FALSE, params |-> <<>>]

NoValid == [query |-> NoQuery, batch |-> <<>>]

\* PreparedQuery.safeParse
PreparedQuery(e) ==
  LET q == ParseQueryText(e.queryText, MaxAllLen)
      p == ParseParams(e.params)
  IN  [ok |-> q.ok /\ p.ok,
       data |-> [queryText |-> q.data, hasParams |-> p.hasParams, params |-> p.params]]

\* ExecQuery.safeParse: keys the schema does not name are stripped.
ExecQuery(e) ==
  LET q == ParseQueryText(e.queryText, MaxExecLen)
  IN  [ok |-> q.ok,
       data |-> [queryText |-> q.data, hasParams |-> FALSE, params |-> <<>>]]

NonEmptyMut(items) == TRUE

NonEmpty(items) == Len(items) >= 1

\* BatchQuery.safeParse
BatchQuery(b) ==
  [ok |-> /\ b.type = "array"
          /\ NonEmpty(b.items)
          /\ \A i \in 1..Len(b.items) : PreparedQuery(b.items[i]).ok,
   data |-> [i \in 1..Len(b.items) |-> PreparedQuery(b.items[i]).data]]

\* zValidator("json", schema) of the route.
zValidator(route, body) ==
  IF route = "all" THEN
    LET r == PreparedQuery(body) IN [ok |-> r.ok, data |-> [query |-> r.data, batch |-> <<>>]]
  ELSE IF route = "exec" THEN
    LET r == ExecQuery(body) IN [ok |-> r.ok, data |-> [query |-> r.data, batch |-> <<>>]]
  ELSE
    LET r == BatchQuery(body.batch) IN [ok |-> r.ok, data |-> [query |-> NoQuery, batch |-> r.data]]

---------------------------------------------------------------------------
\* The bound database (c.env.DB).  A statement is the text it was prepared
\* from and the parameters bound to it; every call the gateway makes is
\* logged with whether it threw and what it returned.
Stmt(text, bound, params) == [text |-> text, bound |-> bound, params |-> params]

Call(op, text, params, stmts, threw, ret) ==
  [op |-> op, text |-> text, params |-> params, stmts |-> stmts,
   threw |-> threw, ret |-> ret]

\* What a throw can carry: an Error object (what D1 throws) or a bare string.
Thrown == {"Error", "string"}

\* A D1Result: the rows echo the statement that produced them, so that a
\* result identifies its statement.
D1Result(rows, error) == [results |-> rows, error |-> error, meta |-> "meta"]

\* The return values of db.exec: undefined, or a count and a duration.
ExecOuts ==
  {[defined |-> FALSE, count |-> 0, duration |-> 0]}
    \cup {[defined |-> TRUE, count |-> c, duration |-> d] : c \in 0..1, d \in 0..1}

\* db.batch(statements) returns one D1Result per statement, in order;
\* errs[i] says whether the i-th carries an error field.
BatchResults(stmts, errs) ==
  [i \in 1..Len(stmts) |->
     D1Result(<<stmts[i]>>, IF errs[i] THEN "string" ELSE "absent")]

---------------------------------------------------------------------------
\* Responses.
NoResp ==
  [status |-> 0, ctype |-> "none", kind |-> "none", error |-> "absent",
   hasResults |-> FALSE, results |-> <<>>, items |-> <<>>,
   count |-> 0, durationMs |-> 0]

\* The plain-text response of bearerAuth ("Unauthorized", "Bad Request").
TextResp(status) == [NoResp EXCEPT !.status = status, !.ctype = "text", !.kind = "text"]

\* c.json({ error: ... }, status); `error` is the JSON type of the field.
ErrorResp(error, status) ==
  [NoResp EXCEPT !.status = status, !.ctype = "json", !.kind = "error", !.error = error]

\* zValidator's default on failure: c.json(result, 400) with result =
\* { success: false, error: <ZodError> }.
ZodResp == [NoResp EXCEPT !.status = 400, !.ctype = "json", !.kind = "zod", !.error = "object"]

\* JSON.stringify of a thrown value: an Error object serializes to {}.
JsonOf(err) == IF err = "Error" THEN "object" ELSE "string"

---------------------------------------------------------------------------
\* POST /query/all/
AllCatchMut(err) == ErrorResp(JsonOf(err), 500)

\* msg = `failed to run query: ${err}`; c.json({ error: msg }, 500)
AllCatch(err) == ErrorResp("string", 500)

AllResp(result) ==
  [NoResp EXCEPT !.status = 200, !.ctype = "json", !.kind = "query",
                 !.hasResults = TRUE, !.results = result.results]

AllThrowPoints(query) ==
  {"none", "prepare", "all"} \cup (IF query.hasParams THEN {"bind"} ELSE {})

RunAll(query, throwAt, err, rows) ==
  LET stmt   == Stmt(query.queryText, query.hasParams, query.params)
      result == D1Result(rows, "absent")
      prepC  == <<Call("prepare", query.queryText, <<>>, <<>>, throwAt = "prepare", <<>>)>>
      bindC  == IF query.hasParams /\ throwAt # "prepare"
                THEN <<Call("bind", query.queryText, query.params, <<>>, throwAt = "bind", <<>>)>>
                ELSE <<>>
      allC   == IF throwAt \in {"none", "all"}
                THEN <<Call("all", query.queryText, stmt.params, <<stmt>>, throwAt = "all",
                            IF throwAt = "none" THEN <<result>> ELSE <<>>)>>
                ELSE <<>>
  IN  [calls |-> prepC \o bindC \o allC,
       resp  |-> IF throwAt = "none" THEN AllResp(result) ELSE AllCatch(err)]

---------------------------------------------------------------------------
\* POST /query/exec/
\* c.json({ error: err }, 500)
ExecCatch(err) == ErrorResp(JsonOf(err), 500)

\* count: out?.count || 0, durationMs: out?.duration || 0
ExecResp(out) ==
  [NoResp EXCEPT !.status = 200, !.ctype = "json", !.kind = "exec",
                 !.count = IF out.defined THEN out.count ELSE 0,
                 !.durationMs = IF out.defined THEN out.duration ELSE 0]

RunExec(query, threw, err, out) ==
  [calls |-> <<Call("exec", query.queryText, <<>>, <<>>, threw, <<>>)>>,
   resp  |-> IF threw THEN ExecCatch(err) ELSE ExecResp(out)]

---------------------------------------------------------------------------
\* POST /query/batch/
NoThrow == [stage |-> "none", idx |-> 0]

BatchThrowPoints(batch) ==
  {NoThrow, [stage |-> "batch", idx |-> 0]}
    \cup {[stage |-> "prepare", idx |-> i] : i \in 1..Len(batch)}
    \cup {[stage |-> "bind", idx |-> i] : i \in {j \in 1..Len(batch) : batch[j].hasParams}}

\* The calls one turn of the loop makes; stop says where it throws.
EntryCalls(query, stop) ==
  <<Call("prepare", query.queryText, <<>>, <<>>, stop = "prepare", <<>>)>>
    \o (IF query.hasParams /\ stop # "prepare"
        THEN <<Call("bind", query.queryText, query.params, <<>>, stop = "bind", <<>>)>>
        ELSE <<>>)

RECURSIVE LoopCalls(_, _, _)
LoopCalls(batch, i, throwAt) ==
  IF i > Len(batch) THEN <<>>
  ELSE IF throwAt.idx = i THEN EntryCalls(batch[i], throwAt.stage)
  ELSE EntryCalls(batch[i], "none") \o LoopCalls(batch, i + 1, throwAt)

RECURSIVE BuildStatementsMut(_)
BuildStatementsMut(batch) ==
  IF batch = <<>> THEN <<>>
  ELSE BuildStatementsMut(Tail(batch))
         \o <<Stmt(Head(batch).queryText, Head(batch).hasParams, Head(batch).params)>>

\* statements.push(...) once per entry, in the order of the entries.
BuildStatements(batch) ==
  [i \in 1..Len(batch) |-> Stmt(batch[i].queryText, batch[i].hasParams, batch[i].params)]

ExecuteBatchMut(stmts, threw, results) ==
  [i \in 1..Len(stmts) |->
     Call("all", stmts[i].text, stmts[i].params, <<stmts[i]>>, threw,
          IF threw THEN <<>> ELSE <<results[i]>>)]

\* await c.env.DB.batch(statements)
ExecuteBatch(stmts, threw, results) ==
  <<Call("batch", Str(0, 0, 0), <<>>, stmts, threw, IF threw THEN <<>> ELSE results)>>

QueryRespMut(result) == [results |-> result.results, error |-> "absent", meta |-> result.meta]

\* queryResp = { results: result.results, error: result.error, meta: result.meta }
QueryResp(result) == [results |-> result.results, error |-> result.error, meta |-> result.meta]

\* c.json(batchResp): the status defaults to 200.
BatchResp(results) ==
  [NoResp EXCEPT !.status = 200, !.ctype = "json", !.kind = "array",
                 !.items = [i \in 1..Len(results) |-> QueryResp(results[i])]]

\* msg = `failed to batch query: ${err}`; c.json({ error: msg }, 500)
BatchCatch(err) == ErrorResp("string", 500)

RunBatch(batch, throwAt, err, errs) ==
  LET stmts   == BuildStatements(batch)
      results == BatchResults(stmts, errs)
      inLoop  == throwAt.stage \in {"prepare", "bind"}
  IN  [calls |-> LoopCalls(batch, 1, throwAt)
                   \o (IF inLoop THEN <<>>
                       ELSE ExecuteBatch(stmts, throwAt.stage = "batch", results)),
       resp  |-> IF throwAt = NoThrow THEN BatchResp(results) ELSE BatchCatch(err)]

---------------------------------------------------------------------------
\* The pipeline of one request.
Init ==
  /\ pc = "idle"
  /\ req = [route |-> "all", header |-> NoHeader, body |-> Body(NoEntry, NoBatch)]
  /\ path = <<>>
  /\ valid = NoValid
  /\ calls = <<>>
  /\ resp = NoResp

\* d1API.run(req, env, ctx)
Receive ==
  /\ pc = "idle"
  /\ \E r \in Requests : req' = r
  /\ pc' = "auth"
  /\ UNCHANGED <<path, valid, calls, resp>>

\* query.use("*", bearerAuth({ token: d1API.sharedSecret }))
Authenticate ==
  /\ pc = "auth"
  /\ path' = Append(path, "bearerAuth")
  /\ LET status == bearerAuth(req.header, sharedSecret)
     IN  IF status = 0
         THEN pc' = "validate" /\ resp' = resp
         ELSE pc' = "done" /\ resp' = TextResp(status)
  /\ UNCHANGED <<req, valid, calls>>

\* zValidator("json", PreparedQuery | ExecQuery | BatchQuery)
Validate ==
  /\ pc = "validate"
  /\ path' = Append(path, "zValidator")
  /\ LET r == zValidator(req.route, req.body)
     IN  IF r.ok
         THEN pc' = "handle" /\ valid' = r.data /\ resp' = resp
         ELSE pc' = "done" /\ valid' = valid /\ resp' = ZodResp
  /\ UNCHANGED <<req, calls>>

HandleAll ==
  /\ pc = "handle" /\ req.route = "all"
  /\ \E throwAt \in AllThrowPoints(valid.query), err \in Thrown, empty \in BOOLEAN :
       LET stmt == Stmt(valid.query.queryText, valid.query.hasParams, valid.query.params)
           out  == RunAll(valid.query, throwAt, err, IF empty THEN <<>> ELSE <<stmt>>)
       IN  calls' = out.calls /\ resp' = out.resp
  /\ path' = Append(path, "handler")
  /\ pc' = "done"
  /\ UNCHANGED <<req, valid>>

HandleExec ==
  /\ pc = "handle" /\ req.route = "exec"
  /\ \E threw \in BOOLEAN, err \in Thrown, o \in ExecOuts :
       LET out == RunExec(valid.query, threw, err, o)
       IN  calls' = out.calls /\ resp' = out.resp
  /\ path' = Append(path, "handler")
  /\ pc' = "done"
  /\ UNCHANGED <<req, valid>>

HandleBatch ==
  /\ pc = "handle" /\ req.route = "batch"
  /\ \E throwAt \in BatchThrowPoints(valid.batch), err \in Thrown,
        errs \in [1..Len(valid.batch) -> BOOLEAN] :
       LET out == RunBatch(valid.batch, throwAt, err, errs)
       IN  calls' = out.calls /\ resp' = out.resp
  /\ path' = Append(path, "handler")
  /\ pc' = "done"
  /\ UNCHANGED <<req, valid>>

\* The response is sent; nothing of the request outlives it.
Respond ==
  /\ pc = "done"
  /\ pc' = "idle"
  /\ req' = [route |-> "all", header |-> NoHeader, body |-> Body(NoEntry, NoBatch)]
  /\ path' = <<>>
  /\ valid' = NoValid
  /\ calls' = <<>>
  /\ resp' = NoResp

Next ==
  \/ Receive
  \/ Authenticate
  \/ Validate
  \/ HandleAll
  \/ HandleExec
  \/ HandleBatch
  \/ Respond

Spec == Init /\ [][Next]_vars

---------------------------------------------------------------------------
\* Vocabulary of the properties.
Done == pc = "done"

\* The request carries "Authorization: Bearer <the configured secret>".
ValidBearer ==
  /\ req.header.present
  /\ req.header.scheme = "Bearer"
  /\ req.header.token = sharedSecret

\* The handler of the route ran: the request passed both middlewares.
Handled == path = <<"bearerAuth", "zValidator", "handler">>

SomeCallThrew == \E i \in DOMAIN calls : calls[i].threw

CallsOf(ops) == {i \in DOMAIN calls : calls[i].op \in ops}

\* A queryText that is missing, not a string, empty or longer than max.
BadText(q, max) == q.type # "string" \/ StrLen(q) = 0 \/ StrLen(q) > max

EmptyBatch == req.body.batch.type = "array" /\ Len(req.body.batch.items) = 0

\* The body fails the route's schema in one of the ways C2 lists.
ListedInvalid ==
  \/ req.route = "all" /\ BadText(req.body.queryText, MaxAllLen)
  \/ req.route = "exec" /\ BadText(req.body.queryText, MaxExecLen)
  \/ /\ req.route = "batch"
     /\ req.body.batch.type = "array"
     /\ \/ Len(req.body.batch.items) = 0
        \/ \E i \in DOMAIN req.body.batch.items :
             BadText(req.body.batch.items[i].queryText, MaxAllLen)

ParamsWellFormed == req.body.params.type \in {"undefined", "array"}

---------------------------------------------------------------------------
\* C1 (as stated): a request without the valid bearer token (header missing,
\* malformed or carrying another token) is answered 401 and no backend
\* operation is invoked for it.
C1_Unauthorized401NoBackend ==
  (Done /\ ~ValidBearer) => (resp.status = 401 /\ calls = <<>>)

C3_FailureIsErrorString ==
  (Done /\ (~Handled \/ SomeCallThrew)) =>
    /\ resp.status \notin 200..299
    /\ resp.ctype = "json"
    /\ resp.error = "string"

\* C4 (as stated): a /batch/ request whose batch array is empty is answered
\* 400 whether or not it carries the valid bearer token.
C4_EmptyBatch400Always ==
  (Done /\ req.route = "batch" /\ EmptyBatch) => resp.status = 400

\* C4 (amended): with the valid bearer token an empty batch is answered 400
\* by the validator; without it the request is answered by bearerAuth and
\* the validator never runs.
C4_EmptyBatch400WhenAuthenticated ==
  (Done /\ req.route = "batch" /\ EmptyBatch) =>
    /\ ValidBearer => (resp.status = 400 /\ path = <<"bearerAuth", "zValidator">>)
    /\ ~ValidBearer => (resp.status \in {400, 401} /\ path = <<"bearerAuth">>)

C4_Witness ==
  /\ Done /\ req.route = "batch" /\ EmptyBatch /\ ValidBearer
  /\ resp.status = 400
  /\ resp.kind = "zod"

C6_BatchOrder ==
  (Done /\ req.route = "batch" /\ Handled /\ ~SomeCallThrew) =>
    LET sent == req.body.batch.items
        last == calls[Len(calls)]
    IN  /\ last.op = "batch"
        /\ Len(last.stmts) = Len(sent)
        /\ Len(resp.items) = Len(sent)
        /\ \A i \in DOMAIN sent :
             /\ last.stmts[i].text = Str(0, sent[i].queryText.core, 0)
             /\ last.stmts[i].params = sent[i].params.items
             /\ resp.items[i].results = last.ret[i].results
             /\ resp.items[i].results = <<last.stmts[i]>>

C6_Witness ==
  /\ Done /\ req.route = "batch" /\ Handled /\ ~SomeCallThrew
  /\ Len(req.body.batch.items) = 2
  /\ req.body.batch.items[1] # req.body.batch.items[2]
  /\ Len(resp.items) = 2

\* C7 (as stated): the text handed to prepare or exec is never empty after
\* trimming.
C7_NoEmptyTextReachesBackend ==
  \A i \in CallsOf({"prepare", "exec"}) : calls[i].text.core > 0

\* C8 (as stated): every value handed to bind is a string, a number, a
\* boolean or null.
C8_BindGetsScalarsOnly ==
  \A i \in CallsOf({"bind"}) :
    \A k \in DOMAIN calls[i].params : calls[i].params[k] \in Scalars

\* C9: when db.batch returns, the response is 200 with one element per
\* result, per-item error fields included; the response is 500 exactly when
\* prepare, bind or batch threw, and then it carries no result sequence.
C9_BatchPartialSuccess ==
  (Done /\ req.route = "batch" /\ Handled) =>
    /\ ~SomeCallThrew =>
         LET ret == calls[Len(calls)].ret
         IN  /\ resp.status = 200 /\ resp.kind = "array"
             /\ Len(resp.items) = Len(ret)
             /\ \A i \in DOMAIN ret : resp.items[i].error = ret[i].error
    /\ resp.status = 500 <=> SomeCallThrew
    /\ SomeCallThrew => (resp.kind = "error" /\ resp.items = <<>>)

C9_Witness ==
  /\ Done /\ req.route = "batch" /\ Handled
  /\ resp.status = 200
  /\ Len(resp.items) = 2
  /\ resp.items[1].error = "string"
  /\ resp.items[2].error = "absent"

\* C10 (as stated): a handled request invokes all, exec or batch at most
\* once, a batch makes exactly one batch call, and a call that throws ends
\* the request with 500 and no further backend call.
C10_ExactlyOneBatchCall ==
  (Done /\ Handled) =>
    /\ Cardinality(CallsOf({"all", "exec", "batch"})) <= 1
    /\ req.route = "batch" => Cardinality(CallsOf({"batch"})) = 1
    /\ \A i \in DOMAIN calls : calls[i].threw => (resp.status = 500 /\ i = Len(calls))

\* C10 (amended): as stated, except that a batch makes exactly one batch
\* call when every statement was prepared and bound without a throw, and
\* none when prepare or bind threw.
C10_AtMostOneExecution ==
  (Done /\ Handled) =>
    LET loopThrew == \E i \in CallsOf({"prepare", "bind"}) : calls[i].threw
    IN  /\ Cardinality(CallsOf({"all", "exec", "batch"})) <= 1
        /\ req.route = "batch" =>
             /\ CallsOf({"all", "exec"}) = {}
             /\ Cardinality(CallsOf({"batch"})) = (IF loopThrew THEN 0 ELSE 1)
        /\ \A i \in DOMAIN calls : calls[i].threw => (resp.status = 500 /\ i = Len(calls))

C10_Witness ==
  /\ Done /\ Handled /\ req.route = "batch"
  /\ Len(req.body.batch.items) = 2
  /\ calls[Len(calls)].op = "batch"
  /\ calls[Len(calls)].threw
  /\ resp.status = 500

====
